---- MODULE Spec2Model ----
(***************************************************************************)
(* Model of the async client generator's RemoteFunctionDefTransformer      *)
(* (tools/async_client_generator/transformers/remote/                      *)
(* function_def_transformer.py) and of the close() coroutine it emits.     *)
(*                                                                         *)
(* Syntax-tree nodes are records [type, name, targets, body]; assignment   *)
(* targets are records [node, ident]; identifiers that the code inspects   *)
(* character by character ("aio" in target.attr) are sequences of          *)
(* one-character strings.  Trees of the model hold no nested function      *)
(* definitions (spec.md section 1: every method is a direct member of the  *)
(* class body).                                                            *)
(***************************************************************************)
EXTENDS Integers, Sequences, FiniteSets

VARIABLES
    keep_sync,          \* self.keep_sync        (policy, fixed for a run)
    exclude_methods,    \* self.exclude_methods  (policy, fixed for a run)
    async_methods,      \* self.async_methods    (policy, fixed for a run)
    input,              \* the FunctionDef nodes visited so far, in order
    output,             \* the nodes the visits returned (None dropped), in order
    applied,            \* which return of visit_FunctionDef each visit took
    second,             \* the result of a second pass over the first pass's result
    pc,                 \* position of the generated close() coroutine
    grpc_channel,       \* self._grpc_channel: "absent", "None" or "channel"
    closed,             \* self._closed
    grpc_grace,         \* the grpc_grace argument of the running close()
    events,             \* what the running close() has done so far
    exc,                \* the error the last close() propagated, if any
    calls,              \* number of close() invocations started
    fastembed_installed,        \* cls._FASTEMBED_INSTALLED
    embedding_models,           \* cls.embedding_models: the names with a cached model
    sparse_embedding_models,    \* cls.sparse_embedding_models, likewise
    model_name,                 \* self._embedding_model_name, "None" when unset
    sparse_model_name,          \* self._sparse_embedding_model_name, "None" when unset
    last                        \* the last call made on the client and what it did

genVars == <<keep_sync, exclude_methods, async_methods, input, output, applied, second>>
closeVars == <<pc, grpc_channel, closed, grpc_grace, events, exc, calls>>
embedVars == <<fastembed_installed, embedding_models, sparse_embedding_models,
               model_name, sparse_model_name, last>>
vars == <<keep_sync, exclude_methods, async_methods, input, output, applied, second,
          pc, grpc_channel, closed, grpc_grace, events, exc, calls,
          fastembed_installed, embedding_models, sparse_embedding_models,
          model_name, sparse_model_name, last>>

----------------------------------------------------------------------------
(* Bounds *)

\* total number of entries of the three policy lists
MaxPolicy == 3
\* methods of the class walked by the driver
MaxMethods == 2
\* statements in the body of a method handed to the generic rule
MaxBody == 2
\* statements in a constructor body
MaxInitBody == 3
\* invocations of the generated close() on one client
MaxCalls == 2
\* documents passed to one add() call
MaxDocs == 3
\* largest batch_size passed to one add() call
MaxBatch == 2
\* points passed to one _embed_raw_points call
MaxPoints == 2

----------------------------------------------------------------------------
(* Syntax-tree model *)

Names == {"__init__", "close", "search", "upsert"}

Attribute(attr) == [node |-> "Attribute", ident |-> attr]
Name(id) == [node |-> "Name", ident |-> id]

Assign(targets) == [type |-> "Assign", name |-> "", targets |-> targets, body |-> <<>>]
AnnAssign(target) == [type |-> "AnnAssign", name |-> "", targets |-> <<target>>, body |-> <<>>]
AugAssign(target) == [type |-> "AugAssign", name |-> "", targets |-> <<target>>, body |-> <<>>]
Call(func) == [type |-> "Call", name |-> func, targets |-> <<>>, body |-> <<>>]
Await(func) == [type |-> "Await", name |-> func, targets |-> <<>>, body |-> <<>>]
If(body) == [type |-> "If", name |-> "", targets |-> <<>>, body |-> body]
Try(func, body) == [type |-> "Try", name |-> func, targets |-> <<>>, body |-> body]
FunctionDef(name, body) == [type |-> "FunctionDef", name |-> name, targets |-> <<>>, body |-> body]
AsyncFunctionDef(name, body) == [type |-> "AsyncFunctionDef", name |-> name, targets |-> <<>>, body |-> body]
NoneNode == [type |-> "None", name |-> "", targets |-> <<>>, body |-> <<>>]

\* attribute and variable names, spelled out
aio_channel == <<"_", "a", "i", "o", "_", "c">>
rest_uri == <<"r", "e", "s", "t">>
a_io == <<"a", "_", "i", "o">>
aio == <<"a", "i", "o">>
closed_attr == <<"_", "c", "l", "o", "s", "e", "d">>

\* sequences over S of length at most n
SeqUpTo(S, n) == UNION {[1..k -> S] : k \in 0..n}

----------------------------------------------------------------------------
(* RemoteFunctionDefTransformer *)

\* "aio" in attr
HasAio(attr) == \E i \in 1..(Len(attr) - 2) : SubSeq(attr, i, i + 2) = <<"a", "i", "o">>

\* mutant: the keep_sync list is not consulted
_keep_sync_async_only(name) == name \notin async_methods

\* mutant: "and" in place of "or"
_keep_sync_and(name) == name \in keep_sync /\ name \notin async_methods

_keep_sync(name) == name \in keep_sync \/ name \notin async_methods

\* mutant: annotated assignments are not looked at
Kicked_assign_only(child_node) ==
    /\ child_node.type = "Assign"
    /\ \E t \in DOMAIN child_node.targets :
         /\ child_node.targets[t].node = "Attribute"
         /\ HasAio(child_node.targets[t].ident)

\* mutant: the kind of the target is not looked at
Kicked_any_target(child_node) ==
    /\ child_node.type \in {"Assign", "AnnAssign"}
    /\ \E t \in DOMAIN child_node.targets : HasAio(child_node.targets[t].ident)

\* the loop body of override_init: does child_node get appended to kick_assignments
Kicked(child_node) ==
    \/ /\ child_node.type = "Assign"
       /\ \E t \in DOMAIN child_node.targets :
            /\ child_node.targets[t].node = "Attribute"
            /\ HasAio(child_node.targets[t].ident)
    \/ /\ child_node.type = "AnnAssign"
       /\ child_node.targets[1].node = "Attribute"
       /\ HasAio(child_node.targets[1].ident)

RECURSIVE RemoveWhileIterating(_, _)
\* a loop over body by position that removes the kicked statement it stands on
RemoveWhileIterating(body, i) ==
    IF i > Len(body) THEN body
    ELSE IF Kicked(body[i])
    THEN RemoveWhileIterating(SubSeq(body, 1, i - 1) \o SubSeq(body, i + 1, Len(body)), i + 1)
    ELSE RemoveWhileIterating(body, i + 1)

\* mutant: the statements are removed from the body while it is iterated
override_init_remove_while_iterating(sync_node) ==
    [sync_node EXCEPT !.body = RemoveWhileIterating(sync_node.body, 1)]

RECURSIVE RemoveAtAnyDepth(_)
\* body without its kicked statements, those inside blocks included
RemoveAtAnyDepth(body) ==
    IF body = <<>> THEN <<>>
    ELSE (IF Kicked(Head(body)) THEN <<>>
          ELSE << [Head(body) EXCEPT !.body = RemoveAtAnyDepth(Head(body).body)] >>)
         \o RemoveAtAnyDepth(Tail(body))

\* mutant: the whole tree under the constructor is searched, as ast.walk would
override_init_any_depth(sync_node) ==
    [sync_node EXCEPT !.body = RemoveAtAnyDepth(sync_node.body)]

override_init(sync_node) ==
    LET kick_assignments == {sync_node.body[i] : i \in {j \in DOMAIN sync_node.body : Kicked(sync_node.body[j])}}
        keep(node) == node \notin kick_assignments
    IN  [sync_node EXCEPT !.body = SelectSeq(sync_node.body, keep)]

\* mutant: the template defines the coroutine under another name
override_close_renamed ==
    AsyncFunctionDef("aclose",
        << If(<< Try("_grpc_channel.close", << Call("show_warning") >>) >>),
           Try("http.aclose", << Call("show_warning") >>),
           Assign(<< Attribute(closed_attr) >>) >>)

\* the function definition parsed from the template string: the awaited
\* closes are the protected expressions of the two try statements, and
\* show_warning is an ordinary call in their handlers
override_close ==
    AsyncFunctionDef("close",
        << If(<< Try("_grpc_channel.close", << Call("show_warning") >>) >>),
           Try("http.aclose", << Call("show_warning") >>),
           Assign(<< Attribute(closed_attr) >>) >>)

RECURSIVE VisitChildren(_)
RECURSIVE AwaitCalls(_)
\* NodeTransformer.generic_visit over a statement list: no statement of the
\* model is a function definition, so each is rebuilt from its visited children
VisitChildren(body) ==
    IF body = <<>> THEN <<>>
    ELSE << [Head(body) EXCEPT !.body = VisitChildren(Head(body).body)] >> \o VisitChildren(Tail(body))

generic_visit(node) == [node EXCEPT !.body = VisitChildren(node.body)]

\* the generic engine's walk over a body: a call of a name in async_methods
\* becomes a suspending call, everything else is kept
AwaitCalls(body) ==
    IF body = <<>> THEN <<>>
    ELSE LET s == Head(body)
             t == IF s.type = "Call" /\ s.name \in async_methods
                  THEN [s EXCEPT !.type = "Await"]
                  ELSE [s EXCEPT !.body = AwaitCalls(s.body)]
         IN  <<t>> \o AwaitCalls(Tail(body))

\* FunctionDefTransformer.visit_FunctionDef, the generic rule the subclass defers to
BaseVisitFunctionDef(sync_node) ==
    IF _keep_sync(sync_node.name)
    THEN [rule |-> "KeptSync", node |-> generic_visit(sync_node)]
    ELSE [rule |-> "Converted",
          node |-> [generic_visit(sync_node) EXCEPT !.type = "AsyncFunctionDef",
                                                    !.body = AwaitCalls(@)]]

\* mutant: the shutdown override is tried before the exclusion list
visit_FunctionDef_close_first(sync_node) ==
    IF sync_node.name = "close"
    THEN [rule |-> "ShutdownOverride", node |-> override_close]
    ELSE IF sync_node.name \in exclude_methods
    THEN [rule |-> "Excluded", node |-> NoneNode]
    ELSE IF sync_node.name = "__init__"
    THEN [rule |-> "ConstructionOverride", node |-> generic_visit(override_init(sync_node))]
    ELSE BaseVisitFunctionDef(sync_node)

\* mutant: the construction override is tried before the exclusion list
visit_FunctionDef_init_first(sync_node) ==
    IF sync_node.name = "__init__"
    THEN [rule |-> "ConstructionOverride", node |-> generic_visit(override_init(sync_node))]
    ELSE IF sync_node.name \in exclude_methods
    THEN [rule |-> "Excluded", node |-> NoneNode]
    ELSE IF sync_node.name = "close"
    THEN [rule |-> "ShutdownOverride", node |-> override_close]
    ELSE BaseVisitFunctionDef(sync_node)

\* mutant: the last return visits the children without deferring to the base class
visit_FunctionDef_no_super(sync_node) ==
    IF sync_node.name \in exclude_methods
    THEN [rule |-> "Excluded", node |-> NoneNode]
    ELSE IF sync_node.name = "__init__"
    THEN [rule |-> "ConstructionOverride", node |-> generic_visit(override_init(sync_node))]
    ELSE IF sync_node.name = "close"
    THEN [rule |-> "ShutdownOverride", node |-> override_close]
    ELSE [rule |-> "KeptSync", node |-> generic_visit(sync_node)]

\* mutant: a close listed in keep_sync is left to the base rule
visit_FunctionDef_close_unless_kept(sync_node) ==
    IF sync_node.name \in exclude_methods
    THEN [rule |-> "Excluded", node |-> NoneNode]
    ELSE IF sync_node.name = "__init__"
    THEN [rule |-> "ConstructionOverride", node |-> generic_visit(override_init(sync_node))]
    ELSE IF sync_node.name = "close" /\ sync_node.name \notin keep_sync
    THEN [rule |-> "ShutdownOverride", node |-> override_close]
    ELSE BaseVisitFunctionDef(sync_node)

visit_FunctionDef(sync_node) ==
    IF sync_node.name \in exclude_methods
    THEN [rule |-> "Excluded", node |-> NoneNode]
    ELSE IF sync_node.name = "__init__"
    THEN [rule |-> "ConstructionOverride", node |-> generic_visit(override_init(sync_node))]
    ELSE IF sync_node.name = "close"
    THEN [rule |-> "ShutdownOverride", node |-> override_close]
    ELSE BaseVisitFunctionDef(sync_node)

----------------------------------------------------------------------------
(* Inputs of a generation run *)

\* bodies of the methods of the class the driver walks
WalkBodies == {<<>>, << Call("upsert"), Assign(<< Attribute(aio_channel) >>) >>}
WalkMethods == {FunctionDef(n, b) : n \in Names, b \in WalkBodies}

\* statements of a method handed to the generic rule
Stmts == {Call("search"), Call("upsert"), Assign(<< Attribute(rest_uri) >>), If(<< Call("search") >>)}
RichMethods == {FunctionDef(n, b) : n \in Names, b \in SeqUpTo(Stmts, MaxBody)}

\* statements of a constructor body
InitStmts ==
    { Assign(<< Attribute(aio_channel) >>),
      Assign(<< Attribute(rest_uri) >>),
      Assign(<< Attribute(rest_uri), Attribute(aio_channel) >>),
      Assign(<< Name(aio) >>),
      Assign(<< Attribute(a_io) >>),
      AnnAssign(Attribute(aio_channel)),
      AnnAssign(Name(aio)),
      AugAssign(Attribute(aio_channel)),
      If(<< Assign(<< Attribute(aio_channel) >>) >>) }
Constructors == {FunctionDef("__init__", b) : b \in SeqUpTo(InitStmts, MaxInitBody)}

\* RemoteFunctionDefTransformer.__init__: the three lists, any of them empty
PolicyInit ==
    /\ keep_sync \in SUBSET Names
    /\ exclude_methods \in SUBSET Names
    /\ async_methods \in SUBSET Names
    /\ Cardinality(keep_sync) + Cardinality(exclude_methods) + Cardinality(async_methods) <= MaxPolicy

\* the policy of a run that only visits a constructor
CtorPolicyInit ==
    /\ keep_sync \in SUBSET {"__init__"}
    /\ exclude_methods \in SUBSET {"__init__"}
    /\ async_methods \in SUBSET {"__init__"}

NoVisits ==
    /\ input = <<>>
    /\ output = <<>>
    /\ applied = <<>>
    /\ second = [pass |-> "none", nodes |-> <<>>]

\* no call made yet on a client without fastembed models
NoModels ==
    /\ fastembed_installed = FALSE
    /\ embedding_models = {}
    /\ sparse_embedding_models = {}
    /\ model_name = "None"
    /\ sparse_model_name = "None"
    /\ last = [op |-> "none"]

NoClient ==
    /\ pc = "idle"
    /\ grpc_channel = "None"
    /\ closed = FALSE
    /\ grpc_grace = "None"
    /\ events = <<>>
    /\ exc = "none"
    /\ calls = 0

\* the driver hands one method definition to visit_FunctionDef; a None result
\* removes the method from the class, any other result takes its place
DoVisit(m) ==
    LET r == visit_FunctionDef(m)
    IN  /\ input' = Append(input, m)
        /\ applied' = Append(applied, r.rule)
        /\ output' = IF r.node = NoneNode THEN output ELSE Append(output, r.node)
        /\ UNCHANGED <<keep_sync, exclude_methods, async_methods, second>>
        /\ UNCHANGED closeVars
        /\ UNCHANGED embedVars

VisitMethod ==
    \E m \in WalkMethods :
        /\ Len(input) < MaxMethods
        /\ \A i \in DOMAIN input : input[i].name # m.name
        /\ DoVisit(m)

VisitRich ==
    \E m \in RichMethods :
        /\ input = <<>>
        /\ DoVisit(m)

VisitInit ==
    \E m \in Constructors :
        /\ input = <<>>
        /\ DoVisit(m)

Init == PolicyInit /\ NoVisits /\ NoClient /\ NoModels
Next == VisitMethod
Spec == Init /\ [][Next]_vars

InitVisit == PolicyInit /\ NoVisits /\ NoClient /\ NoModels
NextVisit == VisitRich
SpecVisit == InitVisit /\ [][NextVisit]_vars

InitCtor == CtorPolicyInit /\ NoVisits /\ NoClient /\ NoModels
NextCtor == VisitInit
SpecInit == InitCtor /\ [][NextCtor]_vars

----------------------------------------------------------------------------
(* A second pass of the transformer over its own result *)

\* NodeTransformer.visit: a FunctionDef goes to visit_FunctionDef; no visitor
\* is defined for any other node, an AsyncFunctionDef included, so it is
\* rebuilt from its visited children
visit(node) ==
    IF node.type = "FunctionDef" THEN visit_FunctionDef(node).node ELSE generic_visit(node)

\* the class-level walk: each method is replaced by its visit, None is dropped
VisitClass(methods) ==
    LET visited == [k \in DOMAIN methods |-> visit(methods[k])]
        present(node) == node # NoneNode
    IN  SelectSeq(visited, present)

\* constructors whose aio assignments may stand next to each other
TwiceInitStmts == {Assign(<< Attribute(aio_channel) >>), Assign(<< Attribute(rest_uri) >>)}
TwiceMethods ==
    RichMethods \cup {FunctionDef("__init__", b) : b \in SeqUpTo(TwiceInitStmts, MaxBody)}

VisitOnce ==
    \E m \in TwiceMethods :
        /\ input = <<>>
        /\ DoVisit(m)

\* the transformer is run again, with the same policy, on the class it produced
Rerun ==
    /\ input # <<>>
    /\ second.pass = "none"
    /\ second' = [pass |-> "rerun", nodes |-> VisitClass(output)]
    /\ UNCHANGED <<keep_sync, exclude_methods, async_methods, input, output, applied>>
    /\ UNCHANGED closeVars
    /\ UNCHANGED embedVars

\* the generic rule is applied again to the method it converted
Reconvert ==
    /\ applied = << "Converted" >>
    /\ second.pass = "none"
    /\ second' = [pass |-> "reconvert", nodes |-> << BaseVisitFunctionDef(output[1]).node >>]
    /\ UNCHANGED <<keep_sync, exclude_methods, async_methods, input, output, applied>>
    /\ UNCHANGED closeVars
    /\ UNCHANGED embedVars

InitTwice == PolicyInit /\ NoVisits /\ NoClient /\ NoModels
NextTwice == VisitOnce \/ Rerun \/ Reconvert
SpecTwice == InitTwice /\ [][NextTwice]_vars

----------------------------------------------------------------------------
(* The generated close() coroutine, lines 40-62 of the template *)

Graces == {"None", "0.5", "5.0"}

\* what an awaited resource close can do: return, or raise an error that is an
\* AttributeError, a RuntimeError, another Exception, or a BaseException that
\* is no Exception (asyncio.CancelledError, KeyboardInterrupt)
Outcomes == {"ok", "AttributeError", "RuntimeError", "Exception", "BaseException"}

Event(op, arg, outcome) == [op |-> op, arg |-> arg, outcome |-> outcome]

\* a caller invokes close(grpc_grace=g); the coroutine runs up to its first await
CloseCall ==
    \E g \in Graces :
        /\ pc \in {"idle", "returned", "raised"}
        /\ calls < MaxCalls
        /\ calls' = calls + 1
        /\ grpc_grace' = g
        /\ events' = <<>>
        /\ exc' = "none"
        /\ pc' = "channel"
        /\ UNCHANGED <<grpc_channel, closed>>
        /\ UNCHANGED genVars
        /\ UNCHANGED embedVars

\* mutant: the RuntimeError handler warns as the AttributeError handler does
CloseChannel_warn_runtime ==
    /\ pc = "channel"
    /\ IF grpc_channel = "channel"
       THEN \E o \in Outcomes :
              /\ events' = events \o << Event("_grpc_channel.close", grpc_grace, o) >>
                             \o (IF o \in {"AttributeError", "RuntimeError"}
                                 THEN << Event("show_warning", "grpc_channel", "ok") >>
                                 ELSE <<>>)
              /\ IF o \in {"ok", "AttributeError", "RuntimeError"}
                 THEN pc' = "http" /\ exc' = exc
                 ELSE pc' = "raised" /\ exc' = o
       ELSE pc' = "http" /\ UNCHANGED <<events, exc>>
    /\ UNCHANGED <<grpc_channel, closed, grpc_grace, calls>>
    /\ UNCHANGED genVars
    /\ UNCHANGED embedVars

\* lines 41-51: the guarded channel close and its two handlers
CloseChannel ==
    /\ pc = "channel"
    /\ IF grpc_channel = "channel"
       THEN \E o \in Outcomes :
              /\ events' = events \o << Event("_grpc_channel.close", grpc_grace, o) >>
                             \o (IF o = "AttributeError"
                                 THEN << Event("show_warning", "grpc_channel", "ok") >>
                                 ELSE <<>>)
              /\ IF o \in {"ok", "AttributeError", "RuntimeError"}
                 THEN pc' = "http" /\ exc' = exc
                 ELSE pc' = "raised" /\ exc' = o
       ELSE pc' = "http" /\ UNCHANGED <<events, exc>>
    /\ UNCHANGED <<grpc_channel, closed, grpc_grace, calls>>
    /\ UNCHANGED genVars
    /\ UNCHANGED embedVars

\* lines 53-62: the HTTP close, its handler, and the closed flag
CloseHttp ==
    /\ pc = "http"
    /\ \E o \in Outcomes :
         IF o = "BaseException"
         THEN /\ events' = Append(events, Event("http.aclose", "", o))
              /\ pc' = "raised"
              /\ exc' = o
              /\ closed' = closed
         ELSE /\ events' = events \o << Event("http.aclose", "", o) >>
                             \o (IF o # "ok" THEN << Event("show_warning", "http", "ok") >> ELSE <<>>)
                             \o << Event("set_closed", "", "ok") >>
              /\ pc' = "returned"
              /\ exc' = exc
              /\ closed' = TRUE
    /\ UNCHANGED <<grpc_channel, grpc_grace, calls>>
    /\ UNCHANGED genVars
    /\ UNCHANGED embedVars

InitClose ==
    /\ keep_sync = {}
    /\ exclude_methods = {}
    /\ async_methods = {}
    /\ NoVisits
    /\ pc = "idle"
    /\ grpc_channel \in {"absent", "None", "channel"}
    /\ closed = FALSE
    /\ grpc_grace = "None"
    /\ events = <<>>
    /\ exc = "none"
    /\ calls = 0
    /\ NoModels
NextClose == CloseCall \/ CloseChannel \/ CloseHttp
SpecClose == InitClose /\ [][NextClose]_vars

----------------------------------------------------------------------------
(* Properties of a generation run *)

Overrides == {"__init__", "close"}

\* the node the visit of input[i] put into the output class, if any
Produced(i) == {output[j] : j \in {k \in DOMAIN output : output[k].name = input[i].name}}

\* C1: every visited method gets exactly one rule, fixed by its name and the
\* policy in first-match order: Excluded when the name is in exclude_methods,
\* else ConstructionOverride for "__init__", else ShutdownOverride for
\* "close", else KeptSync when the name is in keep_sync or not in
\* async_methods, else Converted.
C1_FirstMatchOrder ==
    /\ Len(applied) = Len(input)
    /\ \A i \in DOMAIN input :
         LET m == input[i].name
         IN  /\ (applied[i] = "Excluded") <=> (m \in exclude_methods)
             /\ (applied[i] = "ConstructionOverride") <=>
                    (m \notin exclude_methods /\ m = "__init__")
             /\ (applied[i] = "ShutdownOverride") <=>
                    (m \notin exclude_methods /\ m = "close")
             /\ (applied[i] = "KeptSync") <=>
                    (m \notin exclude_methods /\ m \notin Overrides
                     /\ (m \in keep_sync \/ m \notin async_methods))
             /\ (applied[i] = "Converted") <=>
                    (m \notin exclude_methods /\ m \notin Overrides
                     /\ m \notin keep_sync /\ m \in async_methods)

\* a class whose excluded "close" is also listed as convertible, next to a
\* converted method
C1_Witness ==
    /\ Len(input) = 2
    /\ input[1].name = "close"
    /\ "close" \in exclude_methods \cap async_methods
    /\ applied = << "Excluded", "Converted" >>

\* C5: the output class has no method whose name is in exclude_methods,
\* whatever else the name is listed in, "__init__" and "close" included.
C5_ExcludedAbsent ==
    /\ \A j \in DOMAIN output : output[j].name \notin exclude_methods
    /\ \A i \in DOMAIN input : input[i].name \in exclude_methods => Produced(i) = {}

\* an excluded constructor that is also in keep_sync and async_methods, and an
\* excluded-free method after it
C5_Witness ==
    /\ Len(input) = 2
    /\ input[1].name = "__init__"
    /\ "__init__" \in exclude_methods \cap keep_sync \cap async_methods
    /\ Len(output) = 1
    /\ output[1].name = input[2].name

\* C6: a method listed in both keep_sync and async_methods (not excluded, no
\* override name) is KeptSync and reaches the output as it was, a blocking
\* FunctionDef; a method is Converted only if it is in async_methods and not
\* in keep_sync.
C6_KeepSyncWins ==
    \A i \in DOMAIN input :
        LET m == input[i].name
        IN  /\ (m \notin exclude_methods /\ m \notin Overrides
                /\ m \in keep_sync /\ m \in async_methods)
               => (applied[i] = "KeptSync" /\ Produced(i) = {input[i]})
            /\ (\E n \in Produced(i) : n.type = "AsyncFunctionDef" /\ m # "close")
               => (m \in async_methods /\ m \notin keep_sync)

\* keep_sync = {search}, async_methods = {search, upsert}, nothing excluded:
\* search is left as it was and upsert is converted
C6_Witness ==
    /\ keep_sync = {"search"}
    /\ async_methods = {"search", "upsert"}
    /\ exclude_methods = {}
    /\ Len(input) = 2
    /\ input[1].name = "search"
    /\ input[2].name = "upsert"
    /\ input[2].body # <<>>
    /\ output[1] = input[1]
    /\ output[2].type = "AsyncFunctionDef"

\* the names of a sequence of method definitions, in order
NamesOf(methods) == [k \in DOMAIN methods |-> methods[k].name]

\* C11: the output class lists the non-excluded input methods, each under
\* its own name and at its original relative position; with unique input
\* names it has no duplicate name and no name the input lacks.
C11_OrderPreserved ==
    LET kept == {i \in DOMAIN input : input[i].name \notin exclude_methods}
    IN  /\ Len(output) = Cardinality(kept)
        /\ \A k \in DOMAIN output :
             output[k].name = input[CHOOSE i \in kept : Cardinality({x \in kept : x < i}) = k - 1].name
        /\ \A j, k \in DOMAIN output : output[j].name = output[k].name => j = k
        /\ \A k \in DOMAIN output : \E i \in DOMAIN input : input[i].name = output[k].name

\* close replaced in place in front of a converted search
C11_Witness ==
    /\ NamesOf(input) = << "close", "search" >>
    /\ applied = << "ShutdownOverride", "Converted" >>
    /\ NamesOf(output) = << "close", "search" >>
    /\ output[1] = override_close

\* C12: a second application changes nothing: the generic rule applied to
\* the method it converted returns that method, and the transformer run on
\* the class it produced returns that class.
C12_SecondPassNoOp == second.pass # "none" => second.nodes = output

\* upsert, converted with both of its calls awaited, is converted once more
C12_Witness ==
    /\ second.pass = "reconvert"
    /\ input = << FunctionDef("upsert", << Call("upsert"), If(<< Call("search") >>) >>) >>
    /\ output = << AsyncFunctionDef("upsert", << Await("upsert"), If(<< Await("search") >>) >>) >>
    /\ second.nodes = output

\* C13: a close method that is not excluded comes out as the one shutdown
\* template, whatever its body was and whatever keep_sync and async_methods
\* list: a coroutine named close made of the guarded channel close, the HTTP
\* close and the write of the closed flag.
C13_CloseIsTemplate ==
    \A i \in DOMAIN input :
        (input[i].name = "close" /\ "close" \notin exclude_methods)
        => /\ applied[i] = "ShutdownOverride"
           /\ Produced(i) =
                { [type |-> "AsyncFunctionDef", name |-> "close", targets |-> <<>>,
                   body |-> << If(<< Try("_grpc_channel.close", << Call("show_warning") >>) >>),
                               Try("http.aclose", << Call("show_warning") >>),
                               Assign(<< Attribute(closed_attr) >>) >>] }

\* a close with a body of its own, listed in keep_sync and async_methods
C13_Witness ==
    /\ Len(input) = 1
    /\ input[1] = FunctionDef("close", << Call("search"), Assign(<< Attribute(rest_uri) >>) >>)
    /\ "close" \in keep_sync \cap async_methods
    /\ output = << override_close >>

\* C15: with the three lists empty no method is converted and none is
\* dropped: every method but the constructor and close is KeptSync and
\* reaches the output as it was.
C15_DefaultKeepsAll ==
    (keep_sync = {} /\ exclude_methods = {} /\ async_methods = {}) =>
        /\ Len(output) = Len(input)
        /\ \A i \in DOMAIN input :
             /\ applied[i] \notin {"Converted", "Excluded"}
             /\ input[i].name \notin Overrides
                => (applied[i] = "KeptSync" /\ output[i] = input[i])

\* search and upsert under the default configuration
C15_Witness ==
    /\ keep_sync = {} /\ exclude_methods = {} /\ async_methods = {}
    /\ NamesOf(input) = << "upsert", "search" >>
    /\ input[2].body # <<>>
    /\ applied = << "KeptSync", "KeptSync" >>
    /\ output = input

----------------------------------------------------------------------------
(* Properties of the construction rewrite *)

\* the name spells a, i, o at three consecutive positions
AioMarked(ident) ==
    \E i \in DOMAIN ident :
        /\ i + 2 <= Len(ident)
        /\ ident[i] = "a"
        /\ ident[i + 1] = "i"
        /\ ident[i + 2] = "o"

\* a plain or annotated assignment to an "aio"-marked attribute
AioAssignment(s) ==
    /\ s.type \in {"Assign", "AnnAssign"}
    /\ \E t \in DOMAIN s.targets :
         s.targets[t].node = "Attribute" /\ AioMarked(s.targets[t].ident)

\* an assignment none of whose targets is an attribute reference
NonAttributeAssignment(s) ==
    /\ s.type \in {"Assign", "AnnAssign"}
    /\ \A t \in DOMAIN s.targets : s.targets[t].node # "Attribute"

\* the k-th smallest member of a set of positions
Nth(K, k) == CHOOSE j \in K : Cardinality({x \in K : x < j}) = k - 1

\* a constructor went through the construction rule
CtorRewritten ==
    /\ Len(input) = 1
    /\ input[1].name = "__init__"
    /\ "__init__" \notin exclude_methods

\* C8: the rewritten constructor's body is the input body without its plain
\* and annotated assignments to "aio"-marked attributes: the statements left
\* are the other statements, unchanged, in their order, and nothing is added.
C8_InitDropsAioAssignments ==
    CtorRewritten =>
        /\ Len(output) = 1
        /\ output[1].type = "FunctionDef"
        /\ output[1].name = "__init__"
        /\ LET old == input[1].body
               new == output[1].body
               kept == {j \in DOMAIN old : ~AioAssignment(old[j])}
           IN  /\ Len(new) = Cardinality(kept)
               /\ \A k \in DOMAIN new : new[k] = old[Nth(kept, k)]

\* a body of a plain aio assignment, an ordinary assignment and an annotated
\* aio assignment leaves the ordinary assignment alone
C8_Witness ==
    /\ CtorRewritten
    /\ input[1].body = << Assign(<< Attribute(aio_channel) >>),
                          Assign(<< Attribute(rest_uri) >>),
                          AnnAssign(Attribute(aio_channel)) >>
    /\ output[1].body = << Assign(<< Attribute(rest_uri) >>) >>

\* C9 as stated: a constructor body holding an assignment whose target is no
\* attribute reference makes the run fail with an error and yields no output.
C9_FailsOnUnmatchedShape ==
    (CtorRewritten /\ \E j \in DOMAIN input[1].body : NonAttributeAssignment(input[1].body[j]))
        => (applied[1] = "Error" /\ output = <<>>)

\* C9 amended: the construction rule raises no error on such a body; the run
\* goes on, the constructor is emitted, and every assignment whose targets
\* are not attribute references is kept unchanged, in order.
C9_UnmatchedShapeKept ==
    CtorRewritten =>
        /\ applied[1] = "ConstructionOverride"
        /\ Len(output) = 1
        /\ SelectSeq(output[1].body, NonAttributeAssignment)
             = SelectSeq(input[1].body, NonAttributeAssignment)

\* a constructor assigning a local variable named aio next to an aio attribute
C9_Witness ==
    /\ CtorRewritten
    /\ input[1].body = << Assign(<< Name(aio) >>), Assign(<< Attribute(aio_channel) >>),
                          AnnAssign(Name(aio)) >>
    /\ output[1].body = << Assign(<< Name(aio) >>), AnnAssign(Name(aio)) >>

\* a block holding an assignment to an "aio"-marked attribute
BlockWithAioAssignment(s) ==
    /\ s.type = "If"
    /\ \E j \in DOMAIN s.body : AioAssignment(s.body[j])

\* C20: only the direct child statements of the constructor are inspected: a
\* block with an aio assignment inside it is kept as it is, assignment
\* included.
C20_NestedAioKept ==
    CtorRewritten =>
        SelectSeq(output[1].body, BlockWithAioAssignment)
            = SelectSeq(input[1].body, BlockWithAioAssignment)

\* the same aio assignment directly in the body and inside a block
C20_Witness ==
    /\ CtorRewritten
    /\ input[1].body = << Assign(<< Attribute(aio_channel) >>),
                          If(<< Assign(<< Attribute(aio_channel) >>) >>) >>
    /\ output[1].body = << If(<< Assign(<< Attribute(aio_channel) >>) >>) >>

----------------------------------------------------------------------------
(* Properties of the generic conversion *)

RECURSIVE ConvertedBody(_, _)
\* new is old with each call of a name in async_methods turned into a
\* suspending call, at any depth, and every other node the same
ConvertedBody(old, new) ==
    /\ Len(new) = Len(old)
    /\ \A k \in DOMAIN old :
         IF old[k].type = "Call"
         THEN new[k] = (IF old[k].name \in async_methods THEN Await(old[k].name) ELSE old[k])
         ELSE /\ new[k].type = old[k].type
              /\ new[k].name = old[k].name
              /\ new[k].targets = old[k].targets
              /\ ConvertedBody(old[k].body, new[k].body)

\* C10: a method that is not excluded, no override, in async_methods and not
\* in keep_sync comes out as an AsyncFunctionDef of the same name whose body
\* has every call of a name in async_methods in suspending form and is
\* otherwise identical to the input body.
C10_ConvertedShape ==
    \A i \in DOMAIN input :
        LET m == input[i].name
        IN  (m \notin exclude_methods /\ m \notin Overrides
             /\ m \in async_methods /\ m \notin keep_sync)
            => /\ applied[i] = "Converted"
               /\ \E n \in Produced(i) :
                    /\ Produced(i) = {n}
                    /\ n.type = "AsyncFunctionDef"
                    /\ n.targets = input[i].targets
                    /\ ConvertedBody(input[i].body, n.body)

\* upsert calls search inside a block and upsert directly; only upsert is
\* convertible, so only that call is awaited
C10_Witness ==
    /\ Len(input) = 1
    /\ input[1] = FunctionDef("upsert", << If(<< Call("search") >>), Call("upsert") >>)
    /\ async_methods = {"upsert"}
    /\ output = << AsyncFunctionDef("upsert", << If(<< Call("search") >>), Await("upsert") >>) >>

----------------------------------------------------------------------------
(* Properties of the generated close() *)

\* an invocation of close() is over: it returned or it raised
CloseOver == pc \in {"returned", "raised"}

\* the positions in events of a given operation
Ops(op) == {k \in DOMAIN events : events[k].op = op}

\* C2: close() returns normally whatever the channel close and the HTTP close
\* do: no error reaches the caller.
C2_CloseNeverRaises == pc # "raised"

\* C3: every invocation of close() writes the closed flag once, as its last
\* step, so the flag is true when the invocation is over.
C3_ClosedFlagSetLast ==
    CloseOver =>
        /\ closed
        /\ Cardinality(Ops("set_closed")) = 1
        /\ events[Len(events)].op = "set_closed"

\* C4: every invocation of close() attempts the HTTP close, whatever became
\* of the channel close.
C4_HttpCloseAttempted == CloseOver => Ops("http.aclose") # {}

\* C7: with a channel present, the channel close is called with the caller's
\* grace period; an AttributeError from it gives exactly one channel warning
\* and the coroutine goes on to the HTTP close; a RuntimeError gives no
\* channel warning and the coroutine goes on as well.
C7_ChannelCloseHandling ==
    (pc \in {"http", "returned", "raised"} /\ grpc_channel = "channel") =>
        /\ Ops("_grpc_channel.close") = {1}
        /\ events[1].arg = grpc_grace
        /\ LET warnings == {k \in Ops("show_warning") : events[k].arg = "grpc_channel"}
               goesOn == pc = "http" \/ Ops("http.aclose") # {}
           IN  /\ events[1].outcome = "AttributeError" => (warnings = {2} /\ goesOn)
               /\ events[1].outcome = "RuntimeError" => (warnings = {} /\ goesOn)

\* close(grpc_grace=0.5) on a client whose channel close raises
\* AttributeError and whose HTTP close succeeds
C7_Witness ==
    /\ pc = "returned"
    /\ grpc_grace = "0.5"
    /\ events = << Event("_grpc_channel.close", "0.5", "AttributeError"),
                   Event("show_warning", "grpc_channel", "ok"),
                   Event("http.aclose", "", "ok"),
                   Event("set_closed", "", "ok") >>

----------------------------------------------------------------------------
(* Properties of the call sites of the output class *)

\* the classification of a method name under the policy (spec.md 4.1)
Classification(m) ==
    IF m \in exclude_methods THEN "Excluded"
    ELSE IF m = "__init__" THEN "ConstructionOverride"
    ELSE IF m = "close" THEN "ShutdownOverride"
    ELSE IF m \in keep_sync \/ m \notin async_methods THEN "KeptSync"
    ELSE "Converted"

RECURSIVE AwaitedNames(_)
\* the names called in suspending form anywhere in a body
AwaitedNames(body) ==
    IF body = <<>> THEN {}
    ELSE (IF Head(body).type = "Await" THEN {Head(body).name} ELSE {})
         \cup AwaitedNames(Head(body).body) \cup AwaitedNames(Tail(body))

\* C19: in the output class a call is in suspending form only if the method
\* it names is a coroutine there: no awaited call names a method that is
\* KeptSync, Excluded or the constructor.
C19_AwaitOnlyCoroutines ==
    \A k \in DOMAIN output :
        \A f \in AwaitedNames(output[k].body) :
            Classification(f) \in {"Converted", "ShutdownOverride"}

\* C14: once one invocation of close() is over, the closed flag is true and
\* stays true, through every later invocation and whatever the closes did.
C14_ClosedOnceOver == (calls >= 2 \/ (calls = 1 /\ CloseOver)) => closed

----------------------------------------------------------------------------
(* The embedding mixin: model selection (qdrant_fastembed.py) *)

\* the dense and the sparse models fastembed lists
DenseModels == {"BAAI/bge-small-en", "BAAI/bge-base-en"}
SparseModels == {"prithvida/Splade_PP_en_v1", "Qdrant/bm25"}
DEFAULT_EMBEDDING_MODEL == "BAAI/bge-small-en"

\* the names a caller may pass: listed ones and one that no list holds
ModelNames == DenseModels \cup SparseModels \cup {"unknown/model"}

\* the module-level tables, empty when the import of fastembed failed; the
\* last one holds the sparse models that need the IDF modifier
SUPPORTED_EMBEDDING_MODELS == IF fastembed_installed THEN DenseModels ELSE {}
SUPPORTED_SPARSE_EMBEDDING_MODELS == IF fastembed_installed THEN SparseModels ELSE {}
IDF_EMBEDDING_MODELS == IF fastembed_installed THEN {"Qdrant/bm25"} ELSE {}

\* _import_fastembed: returns when fastembed is installed, raises otherwise
_import_fastembed == IF fastembed_installed THEN "ok" ELSE "ImportError"

\* the lookup shared by the dense and the sparse cache: a cached name returns
\* at once; otherwise the import check, then the support check, then the
\* constructor (built tells whether it returned), then the cache write
GetOrInit(name, cache, supported, built) ==
    IF name \in cache THEN [result |-> "ok", cache |-> cache]
    ELSE IF _import_fastembed # "ok" THEN [result |-> "ImportError", cache |-> cache]
    ELSE IF name \notin supported THEN [result |-> "ValueError", cache |-> cache]
    ELSE IF ~built THEN [result |-> "Exception", cache |-> cache]
    ELSE [result |-> "ok", cache |-> cache \cup {name}]

_get_or_init_model(name, built) ==
    GetOrInit(name, embedding_models, SUPPORTED_EMBEDDING_MODELS, built)

_get_or_init_sparse_model(name, built) ==
    GetOrInit(name, sparse_embedding_models, SUPPORTED_SPARSE_EMBEDDING_MODELS, built)

\* what the client and the shared caches held before a call
Held ==
    [model_name |-> model_name, sparse_model_name |-> sparse_model_name,
     embedding_models |-> embedding_models,
     sparse_embedding_models |-> sparse_embedding_models]

\* set_model with the name assigned before the model is obtained
set_model_name_first(name, built) ==
    LET got == _get_or_init_model(name, built) IN
    /\ embedding_models' = got.cache
    /\ model_name' = name
    /\ last' = [op |-> "set_model", arg |-> name, result |-> got.result, old |-> Held]
    /\ UNCHANGED <<fastembed_installed, sparse_embedding_models, sparse_model_name>>

\* set_model: obtain the model, then record the name
set_model(name, built) ==
    LET got == _get_or_init_model(name, built) IN
    /\ embedding_models' = got.cache
    /\ model_name' = IF got.result = "ok" THEN name ELSE model_name
    /\ last' = [op |-> "set_model", arg |-> name, result |-> got.result, old |-> Held]
    /\ UNCHANGED <<fastembed_installed, sparse_embedding_models, sparse_model_name>>

\* set_sparse_model: None skips the lookup; the name is recorded afterwards
set_sparse_model(name, built) ==
    LET got == IF name = "None"
               THEN [result |-> "ok", cache |-> sparse_embedding_models]
               ELSE _get_or_init_sparse_model(name, built) IN
    /\ sparse_embedding_models' = got.cache
    /\ sparse_model_name' = IF got.result = "ok" THEN name ELSE sparse_model_name
    /\ last' = [op |-> "set_sparse_model", arg |-> name, result |-> got.result, old |-> Held]
    /\ UNCHANGED <<fastembed_installed, embedding_models, model_name>>

SetModel ==
    /\ \E name \in ModelNames, built \in BOOLEAN : set_model(name, built)
    /\ UNCHANGED genVars
    /\ UNCHANGED closeVars

SetSparseModel ==
    /\ \E name \in ModelNames \cup {"None"}, built \in BOOLEAN : set_sparse_model(name, built)
    /\ UNCHANGED genVars
    /\ UNCHANGED closeVars

\* a new client: the constructor records whether fastembed can be imported
\* and leaves both model names unset; the shared caches start empty
InitModels ==
    /\ keep_sync = {}
    /\ exclude_methods = {}
    /\ async_methods = {}
    /\ NoVisits /\ NoClient
    /\ fastembed_installed \in BOOLEAN
    /\ embedding_models = {}
    /\ sparse_embedding_models = {}
    /\ model_name = "None"
    /\ sparse_model_name = "None"
    /\ last = [op |-> "none"]

NextModels == SetModel \/ SetSparseModel

SpecModels == InitModels /\ [][NextModels]_vars

\* C16: a set_model call for a name not in the cache raises ImportError when
\* fastembed is not installed and ValueError when it is installed and the name
\* is not a supported dense model; after either error the current model name
\* and the shared cache are what they were; and the current name changes only
\* to the requested name, only when the call returned, with that name cached.
C16_SetModelErrors ==
    last.op = "set_model" =>
        /\ (~fastembed_installed /\ last.arg \notin last.old.embedding_models)
               => last.result = "ImportError"
        /\ (fastembed_installed /\ last.arg \notin DenseModels
                /\ last.arg \notin last.old.embedding_models)
               => last.result = "ValueError"
        /\ last.result \in {"ImportError", "ValueError"}
               => /\ model_name = last.old.model_name
                  /\ embedding_models = last.old.embedding_models
        /\ last.result # "ok" => model_name = last.old.model_name
        /\ last.result = "ok"
               => /\ model_name = last.arg
                  /\ last.arg \in embedding_models

\* an unsupported name was refused after another model had been selected
C16_Witness ==
    /\ last.op = "set_model"
    /\ last.result = "ValueError"
    /\ last.arg = "unknown/model"
    /\ model_name = "BAAI/bge-base-en"
    /\ embedding_models = {"BAAI/bge-base-en"}

----------------------------------------------------------------------------
(* The embedding mixin: add() *)

\* _get_model_params: the import check, then the support check
_get_model_params(name) ==
    IF _import_fastembed # "ok" THEN "ImportError"
    ELSE IF name \notin SUPPORTED_EMBEDDING_MODELS THEN "ValueError"
    ELSE "ok"

\* a collection as get_collection reports it, seen from the client's models:
\* whether params.vectors is a dict, holds the dense field with the model's
\* size and distance, and what params.sparse_vectors is
Compatible ==
    [vectors_is_dict |-> TRUE, has_field |-> TRUE, size_eq |-> TRUE,
     distance_eq |-> TRUE, sparse_vectors |-> "with_field", modifier_idf |-> TRUE]

CollectionInfos ==
    { Compatible,
      [Compatible EXCEPT !.vectors_is_dict = FALSE],
      [Compatible EXCEPT !.has_field = FALSE],
      [Compatible EXCEPT !.size_eq = FALSE],
      [Compatible EXCEPT !.distance_eq = FALSE],
      [Compatible EXCEPT !.sparse_vectors = "None"],
      [Compatible EXCEPT !.sparse_vectors = "without_field"],
      [Compatible EXCEPT !.modifier_idf = FALSE] }

\* _validate_collection_info: the model parameters, then the assertions in
\* their order; "ok" when it returns
_validate_collection_info(info) ==
    IF _get_model_params(model_name) # "ok" THEN _get_model_params(model_name)
    ELSE IF ~info.vectors_is_dict THEN "AssertionError"
    ELSE IF ~info.has_field THEN "AssertionError"
    ELSE IF ~info.size_eq THEN "AssertionError"
    ELSE IF ~info.distance_eq THEN "AssertionError"
    ELSE IF sparse_model_name = "None" THEN "ok"
    ELSE IF info.sparse_vectors = "None" THEN "TypeError"
    ELSE IF info.sparse_vectors = "without_field" THEN "AssertionError"
    ELSE IF sparse_model_name \in IDF_EMBEDDING_MODELS /\ ~info.modifier_idf
         THEN "AssertionError"
    ELSE "ok"

\* an optional argument left at None, where a given one is told by its length
NotGiven == -1

\* the documents of a call, told apart by their position
Docs(n) == [i \in 1..n |-> i]
\* the ids and the metadata a caller supplies
CallerIds(k) == [i \in 1..k |-> [by |-> "caller", n |-> i]]
Metas(k, kind) == [i \in 1..k |-> [index |-> i, document_key |-> (kind = "with_document_key")]]

Sides == {"dense", "sparse"}

\* up to c items of an iterator, and what is left of it
Take(seq, c) == SubSeq(seq, 1, IF c < Len(seq) THEN c ELSE Len(seq))
Drop(seq, c) == SubSeq(seq, (IF c < Len(seq) THEN c ELSE Len(seq)) + 1, Len(seq))

\* an embedder reads its next batch from the documents: a list is iterated by
\* each reader on its own, an iterator is one stream that both readers drain
ReadBatch(st, side) ==
    LET left == Drop(st.src[side], st.batch_size) IN
    [st EXCEPT !.src = IF st.shared THEN [x \in Sides |-> left]
                       ELSE [@ EXCEPT ![side] = left]]

\* the pipeline add() builds and upload_points pulls from: nothing of it has
\* run when upload_points is called
Pipeline(a, dense_init, sparse_init, limit) ==
    [src |-> [x \in Sides |-> Docs(a.n)], shared |-> (a.kind = "iterator"),
     batch_size |-> a.batch_size,
     ids_given |-> (a.ids # NotGiven),
     ids |-> IF a.ids = NotGiven THEN <<>> ELSE CallerIds(a.ids),
     uuids |-> 0,
     meta_given |-> (a.metadata # NotGiven),
     meta |-> IF a.metadata = NotGiven THEN <<>> ELSE Metas(a.metadata, a.meta_kind),
     vecs |-> <<>>, tee |-> <<>>, svecs |-> <<>>,
     sparse |-> (sparse_model_name # "None"),
     dense_init |-> dense_init, dense_started |-> FALSE,
     sparse_init |-> sparse_init, sparse_started |-> FALSE,
     points |-> <<>>, ids_accumulator |-> <<>>, limit |-> limit, raised |-> "none"]

\* next(ids): the caller's ids, or uuid4 values without end
NextId(st) ==
    IF ~st.ids_given
    THEN [st |-> [st EXCEPT !.uuids = @ + 1], status |-> "item",
          item |-> [by |-> "uuid4", n |-> st.uuids + 1]]
    ELSE IF st.ids = <<>> THEN [st |-> st, status |-> "stop", item |-> 0]
    ELSE [st |-> [st EXCEPT !.ids = Tail(@)], status |-> "item", item |-> Head(st.ids)]

\* next(metadata): the caller's dicts, or empty dicts without end
NextMeta(st) ==
    IF ~st.meta_given
    THEN [st |-> st, status |-> "item", item |-> [index |-> 0, document_key |-> FALSE]]
    ELSE IF st.meta = <<>> THEN [st |-> st, status |-> "stop", item |-> 0]
    ELSE [st |-> [st EXCEPT !.meta = Tail(@)], status |-> "item", item |-> Head(st.meta)]

\* next(encoded_docs): _embed_documents obtains the model on its first step,
\* tees the documents, and pairs each vector of passage_embed with the next
\* document of the second tee branch
NextEncoded(st) ==
    IF ~st.dense_started /\ st.dense_init # "ok"
    THEN [st |-> [st EXCEPT !.dense_started = TRUE], status |-> "raise", item |-> 0]
    ELSE LET s0 == [st EXCEPT !.dense_started = TRUE]
             got == Take(s0.src["dense"], s0.batch_size)
             s1 == IF s0.vecs # <<>> THEN s0
                   ELSE [ReadBatch(s0, "dense") EXCEPT !.vecs = got, !.tee = @ \o got]
         IN IF s1.vecs = <<>> THEN [st |-> s1, status |-> "stop", item |-> 0]
            ELSE [st |-> [s1 EXCEPT !.vecs = Tail(@), !.tee = Tail(@)], status |-> "item",
                  item |-> [doc |-> Head(s1.tee), vector |-> Head(s1.vecs)]]

\* next(sparse_vectors): None without end when no sparse model is set;
\* otherwise _sparse_embed_documents obtains the model on its first step and
\* embeds the documents it reads itself
NextSparse(st) ==
    IF ~st.sparse THEN [st |-> st, status |-> "item", item |-> 0]
    ELSE IF ~st.sparse_started /\ st.sparse_init # "ok"
    THEN [st |-> [st EXCEPT !.sparse_started = TRUE], status |-> "raise", item |-> 0]
    ELSE LET s0 == [st EXCEPT !.sparse_started = TRUE]
             got == Take(s0.src["sparse"], s0.batch_size)
             s1 == IF s0.svecs # <<>> THEN s0
                   ELSE [ReadBatch(s0, "sparse") EXCEPT !.svecs = got]
         IN IF s1.svecs = <<>> THEN [st |-> s1, status |-> "stop", item |-> 0]
            ELSE [st |-> [s1 EXCEPT !.svecs = Tail(@)], status |-> "item",
                  item |-> Head(s1.svecs)]

\* the point built from one step of the zip: the payload is the document
\* updated by the metadata dict, the vector holds the dense vector and, with
\* a sparse model, the sparse one (each named by the document it embeds)
PointStruct(idx, meta, encoded, sparse_vector) ==
    [id |-> idx,
     payload |-> [document |-> IF meta.document_key THEN <<"metadata", meta.index>>
                               ELSE <<"documents", encoded.doc>>,
                  meta |-> meta.index],
     vector |-> [dense |-> encoded.vector, sparse |-> sparse_vector]]

RECURSIVE _points_iterator(_)
\* _points_iterator as upload_points drives it: zip asks ids, metadata,
\* encoded_docs and sparse_vectors in this order and ends at the first that
\* is exhausted; the loop body appends the id and yields the point
_points_iterator(st) ==
    IF Len(st.points) >= st.limit THEN st
    ELSE LET i == NextId(st) IN
    IF i.status # "item" THEN i.st
    ELSE LET m == NextMeta(i.st) IN
    IF m.status # "item" THEN m.st
    ELSE LET e == NextEncoded(m.st) IN
    IF e.status = "raise" THEN [e.st EXCEPT !.raised = st.dense_init]
    ELSE IF e.status = "stop" THEN e.st
    ELSE LET v == NextSparse(e.st) IN
    IF v.status = "raise" THEN [v.st EXCEPT !.raised = st.sparse_init]
    ELSE IF v.status = "stop" THEN v.st
    ELSE _points_iterator(
             [v.st EXCEPT !.ids_accumulator = Append(@, i.item),
                          !.points = Append(@, PointStruct(i.item, m.item, e.item, v.item))])

\* the arguments of an add() call: the number of documents and whether they
\* come as a list or as an iterator, ids and metadata (None or their length),
\* whether the metadata dicts have a "document" key, batch_size
AddArgs ==
    [n : 0..MaxDocs, kind : {"list", "iterator"},
     ids : {NotGiven} \cup (0..MaxDocs + 1),
     metadata : {NotGiven} \cup (0..MaxDocs + 1),
     meta_kind : {"plain", "with_document_key"},
     batch_size : 1..MaxBatch]

NoArgs ==
    [n |-> 0, kind |-> "list", ids |-> NotGiven, metadata |-> NotGiven,
     meta_kind |-> "plain", batch_size |-> 1]

\* add() is called: the two generators are created without running, reading
\* self.embedding_model_name selects the default model when none is set
AddCall ==
    /\ last.op = "none"
    /\ model_name' = IF model_name = "None" THEN DEFAULT_EMBEDDING_MODEL ELSE model_name
    /\ last' = [op |-> "add", at |-> "get_collection", log |-> <<>>, info |-> Compatible,
                result |-> "running", args |-> NoArgs, uploaded |-> <<>>,
                inserted_ids |-> <<>>, returned |-> <<>>, old |-> Held]
    /\ UNCHANGED <<fastembed_installed, embedding_models, sparse_embedding_models,
                   sparse_model_name>>
    /\ UNCHANGED genVars
    /\ UNCHANGED closeVars

\* add() leaves with an error
AddRaise(e, log) ==
    last' = [last EXCEPT !.at = "done", !.result = e, !.log = log]

\* the first get_collection: it returns the collection info, or raises
AddGetCollection ==
    /\ last.op = "add" /\ last.at = "get_collection"
    /\ \E outcome \in {"ok", "Exception", "BaseException"}, info \in CollectionInfos :
         LET log == Append(last.log, Event("get_collection", "", outcome)) IN
         CASE outcome = "ok" ->
                  last' = [last EXCEPT !.at = "validate", !.info = info, !.log = log]
           [] outcome = "Exception" ->
                  last' = [last EXCEPT !.at = "create_collection", !.log = log]
           [] OTHER -> AddRaise(outcome, log)
    /\ UNCHANGED <<fastembed_installed, embedding_models, sparse_embedding_models,
                   model_name, sparse_model_name>>
    /\ UNCHANGED genVars
    /\ UNCHANGED closeVars

\* the except branch: the vector parameters are computed, then
\* create_collection is called with them
AddCreateCollection ==
    /\ last.op = "add" /\ last.at = "create_collection"
    /\ IF _get_model_params(model_name) # "ok"
       THEN AddRaise(_get_model_params(model_name), last.log)
       ELSE \E outcome \in {"ok", "Exception"} :
              LET log == Append(last.log, Event("create_collection",
                                               <<model_name, sparse_model_name>>, outcome)) IN
              IF outcome = "ok"
              THEN last' = [last EXCEPT !.at = "get_again", !.log = log]
              ELSE AddRaise(outcome, log)
    /\ UNCHANGED <<fastembed_installed, embedding_models, sparse_embedding_models,
                   model_name, sparse_model_name>>
    /\ UNCHANGED genVars
    /\ UNCHANGED closeVars

\* the get_collection that follows create_collection
AddGetAgain ==
    /\ last.op = "add" /\ last.at = "get_again"
    /\ \E outcome \in {"ok", "Exception", "BaseException"}, info \in CollectionInfos :
         LET log == Append(last.log, Event("get_collection", "", outcome)) IN
         IF outcome = "ok"
         THEN last' = [last EXCEPT !.at = "validate", !.info = info, !.log = log]
         ELSE AddRaise(outcome, log)
    /\ UNCHANGED <<fastembed_installed, embedding_models, sparse_embedding_models,
                   model_name, sparse_model_name>>
    /\ UNCHANGED genVars
    /\ UNCHANGED closeVars

\* add() uploading whatever the validation said
AddValidate_ignored ==
    /\ last.op = "add" /\ last.at = "validate"
    /\ last' = [last EXCEPT !.at = "upload_points"]
    /\ UNCHANGED <<fastembed_installed, embedding_models, sparse_embedding_models,
                   model_name, sparse_model_name>>
    /\ UNCHANGED genVars
    /\ UNCHANGED closeVars

\* _validate_collection_info on the info obtained: an error leaves add()
AddValidate ==
    /\ last.op = "add" /\ last.at = "validate"
    /\ LET v == _validate_collection_info(last.info) IN
       IF v = "ok" THEN last' = [last EXCEPT !.at = "upload_points"]
       ELSE AddRaise(v, last.log)
    /\ UNCHANGED <<fastembed_installed, embedding_models, sparse_embedding_models,
                   model_name, sparse_model_name>>
    /\ UNCHANGED genVars
    /\ UNCHANGED closeVars

\* upload_points pulls the points batch by batch until the iterator ends and
\* returns, or raises when the upload of its first batch fails
upload_points(a, dense_init, sparse_init, outcome) ==
    _points_iterator(Pipeline(a, dense_init, sparse_init,
                              IF outcome = "ok" THEN MaxDocs + 1 ELSE a.batch_size))

\* the rest of add(): the accumulator, the points iterator, upload_points and
\* the return of the accumulated ids. The arguments are not read before this
\* step, so they are drawn here.
AddUpload ==
    /\ last.op = "add" /\ last.at = "upload_points"
    /\ \E a \in AddArgs, built \in BOOLEAN, outcome \in {"ok", "Exception"} :
         LET dense == _get_or_init_model(model_name, built)
             sparse == _get_or_init_sparse_model(sparse_model_name, built)
             st == upload_points(a, dense.result, sparse.result, outcome)
             result == IF st.raised # "none" THEN st.raised
                       ELSE IF outcome # "ok" THEN outcome
                       ELSE "returned"
         IN /\ (a.metadata = NotGiven => a.meta_kind = "plain")
            /\ embedding_models' =
                   IF st.dense_started THEN dense.cache ELSE embedding_models
            /\ sparse_embedding_models' =
                   IF st.sparse_started THEN sparse.cache ELSE sparse_embedding_models
            /\ last' = [last EXCEPT !.at = "done", !.result = result, !.args = a,
                            !.log = Append(@, Event("upload_points", "", 
                                                    IF result = "returned" THEN "ok" ELSE result)),
                            !.uploaded = st.points,
                            !.inserted_ids = st.ids_accumulator,
                            !.returned = IF result = "returned" THEN st.ids_accumulator
                                         ELSE <<>>]
    /\ UNCHANGED <<fastembed_installed, model_name, sparse_model_name>>
    /\ UNCHANGED genVars
    /\ UNCHANGED closeVars

\* a client on which models may have been selected (and are cached then)
InitAdd ==
    /\ keep_sync = {}
    /\ exclude_methods = {}
    /\ async_methods = {}
    /\ NoVisits /\ NoClient
    /\ fastembed_installed \in BOOLEAN
    /\ model_name \in {"None"} \cup (SUPPORTED_EMBEDDING_MODELS \ {DEFAULT_EMBEDDING_MODEL})
    /\ sparse_model_name \in {"None"} \cup SUPPORTED_SPARSE_EMBEDDING_MODELS
    /\ embedding_models = {model_name} \ {"None"}
    /\ sparse_embedding_models = {sparse_model_name} \ {"None"}
    /\ last = [op |-> "none"]

NextAdd ==
    AddCall \/ AddGetCollection \/ AddCreateCollection \/ AddGetAgain \/ AddValidate
    \/ AddUpload

SpecAdd == InitAdd /\ [][NextAdd]_vars

----------------------------------------------------------------------------
(* Properties of add() *)

\* the call was made by the add() under way
Called(op) == \E k \in DOMAIN last.log : last.log[k].op = op
\* a get_collection of this add() returned the collection info
GotInfo == \E k \in DOMAIN last.log :
               last.log[k].op = "get_collection" /\ last.log[k].outcome = "ok"
AddOver == last.op = "add" /\ last.at = "done"

C18_ReturnedIds ==
    (AddOver /\ last.result = "returned") =>
        /\ Len(last.returned) = Len(last.uploaded)
        /\ \A k \in DOMAIN last.returned : last.returned[k] = last.uploaded[k].id
        /\ last.args.ids # NotGiven
               => \A k \in DOMAIN last.returned : last.returned[k] = [by |-> "caller", n |-> k]
        /\ last.args.ids = NotGiven
               => /\ \A k \in DOMAIN last.returned : last.returned[k].by = "uuid4"
                  /\ \A j, k \in DOMAIN last.returned :
                         last.returned[j] = last.returned[k] => j = k
        /\ (/\ last.args.ids = NotGiven \/ last.args.ids >= last.args.n
            /\ last.args.metadata = NotGiven \/ last.args.metadata >= last.args.n)
               => Len(last.returned) = last.args.n

\* C21: in an add() with a sparse model set that returns, ids and metadata
\* absent or long enough and no "document" key in the metadata, there is one
\* point per input document, and the k-th point's payload document, dense
\* vector and sparse vector all come from the k-th document, whether the
\* documents are a list or a single-pass iterator.
C21_PointsAligned ==
    (/\ AddOver /\ last.result = "returned"
     /\ sparse_model_name # "None"
     /\ last.args.meta_kind = "plain"
     /\ last.args.ids = NotGiven \/ last.args.ids >= last.args.n
     /\ last.args.metadata = NotGiven \/ last.args.metadata >= last.args.n)
        => /\ Len(last.uploaded) = last.args.n
           /\ \A k \in DOMAIN last.uploaded :
                  /\ last.uploaded[k].payload.document = <<"documents", k>>
                  /\ last.uploaded[k].vector.dense = k
                  /\ last.uploaded[k].vector.sparse = k

----------------------------------------------------------------------------
(* The embedding mixin: embedding a Document *)

\* _embed_document on a client c (its names and the caches): a dense model is
\* selected with set_model, a model that is only sparse with
\* set_sparse_model, each followed by the lookup of the model (now cached) and
\* the embedding of the text (embedded tells whether that returned); any
\* other name raises ValueError
EmbedDocumentOn(c, name, built, embedded) ==
    LET dense == name \in SUPPORTED_EMBEDDING_MODELS
        sparse == ~dense /\ name \in SUPPORTED_SPARSE_EMBEDDING_MODELS
        \* set_model / set_sparse_model: the lookup, then the name
        got == IF dense
               THEN GetOrInit(name, c.embedding_models, SUPPORTED_EMBEDDING_MODELS, built)
               ELSE IF sparse
               THEN GetOrInit(name, c.sparse_embedding_models,
                              SUPPORTED_SPARSE_EMBEDDING_MODELS, built)
               ELSE [result |-> "ValueError"]
        \* the second lookup finds what the first one cached
        again == IF got.result # "ok" THEN got
                 ELSE IF dense
                 THEN GetOrInit(name, got.cache, SUPPORTED_EMBEDDING_MODELS, built)
                 ELSE GetOrInit(name, got.cache, SUPPORTED_SPARSE_EMBEDDING_MODELS, built)
        result == IF again.result # "ok" THEN again.result
                  ELSE IF embedded THEN "ok" ELSE "Exception"
    IN [client |->
            [model_name |-> IF dense /\ got.result = "ok" THEN name ELSE c.model_name,
             sparse_model_name |-> IF sparse /\ got.result = "ok" THEN name
                                   ELSE c.sparse_model_name,
             embedding_models |-> IF dense THEN again.cache ELSE c.embedding_models,
             sparse_embedding_models |-> IF sparse THEN again.cache
                                         ELSE c.sparse_embedding_models],
        result |-> result,
        value |-> IF result # "ok" THEN "none"
                  ELSE IF dense THEN "dense vector" ELSE "SparseVector"]

\* the client after a call
Becomes(c) ==
    /\ model_name' = c.model_name
    /\ sparse_model_name' = c.sparse_model_name
    /\ embedding_models' = c.embedding_models
    /\ sparse_embedding_models' = c.sparse_embedding_models
    /\ UNCHANGED fastembed_installed

\* _embed_document obtaining the model without selecting it
_embed_document_no_set(name, built, embedded) ==
    LET dense == name \in SUPPORTED_EMBEDDING_MODELS
        sparse == ~dense /\ name \in SUPPORTED_SPARSE_EMBEDDING_MODELS
        got == IF dense THEN _get_or_init_model(name, built)
               ELSE IF sparse THEN _get_or_init_sparse_model(name, built)
               ELSE [result |-> "ValueError"]
        result == IF got.result # "ok" THEN got.result
                  ELSE IF embedded THEN "ok" ELSE "Exception"
    IN /\ embedding_models' = IF dense THEN got.cache ELSE embedding_models
       /\ sparse_embedding_models' = IF sparse THEN got.cache ELSE sparse_embedding_models
       /\ UNCHANGED <<model_name, sparse_model_name>>
       /\ last' = [op |-> "_embed_document", arg |-> name, result |-> result,
                   value |-> IF result # "ok" THEN "none"
                             ELSE IF dense THEN "dense vector" ELSE "SparseVector",
                   old |-> Held]
       /\ UNCHANGED fastembed_installed

\* _embed_document called on the client
_embed_document(name, built, embedded) ==
    LET r == EmbedDocumentOn(Held, name, built, embedded) IN
    /\ Becomes(r.client)
    /\ last' = [op |-> "_embed_document", arg |-> name, result |-> r.result,
                value |-> r.value, old |-> Held]

EmbedDocument ==
    /\ \E name \in ModelNames, built \in BOOLEAN, embedded \in BOOLEAN :
           _embed_document(name, built, embedded)
    /\ UNCHANGED genVars
    /\ UNCHANGED closeVars

NextEmbed == SetModel \/ SetSparseModel \/ EmbedDocument

SpecEmbed == InitModels /\ [][NextEmbed]_vars

\* C23: after _embed_document(doc) returned, the current dense model name is
\* doc.model when that is a dense model, with the sparse name as it was, and
\* the current sparse model name is doc.model when that is a sparse model
\* only, with the dense name as it was; when doc.model is in neither
\* supported table ValueError is raised and both names are as they were.
C23_EmbedSelectsModel ==
    last.op = "_embed_document" =>
        /\ (last.result = "ok" /\ last.arg \in SUPPORTED_EMBEDDING_MODELS)
               => /\ model_name = last.arg
                  /\ sparse_model_name = last.old.sparse_model_name
        /\ (last.result = "ok" /\ last.arg \notin SUPPORTED_EMBEDDING_MODELS
                /\ last.arg \in SUPPORTED_SPARSE_EMBEDDING_MODELS)
               => /\ sparse_model_name = last.arg
                  /\ model_name = last.old.model_name
        /\ last.arg \notin SUPPORTED_EMBEDDING_MODELS \cup SUPPORTED_SPARSE_EMBEDDING_MODELS
               => /\ last.result = "ValueError"
                  /\ model_name = last.old.model_name
                  /\ sparse_model_name = last.old.sparse_model_name

\* a document of a sparse model was embedded on a client that had another
\* sparse model and a dense model selected
C23_Witness ==
    /\ last.op = "_embed_document"
    /\ last.result = "ok"
    /\ last.arg = "Qdrant/bm25"
    /\ last.old.sparse_model_name = "prithvida/Splade_PP_en_v1"
    /\ sparse_model_name = "Qdrant/bm25"
    /\ model_name = "BAAI/bge-base-en"

----------------------------------------------------------------------------
(* The embedding mixin: embedding the vectors of points *)

\* the vectors a point may carry: a Document naming its model, an
\* already-computed vector, a dict of such (its keys in their order), and
\* what a Document is replaced by
Document(m) == [kind |-> "Document", model |-> m, items |-> <<>>]
PlainVector == [kind |-> "plain", model |-> "", items |-> <<>>]
DictVector(items) == [kind |-> "dict", model |-> "", items |-> items]
Embedding(m, value) == [kind |-> value, model |-> m, items |-> <<>>]

DocumentModels == {"BAAI/bge-base-en", "Qdrant/bm25", "unknown/model"}
DictValues == {PlainVector} \cup {Document(m) : m \in DocumentModels}
Vectors ==
    DictValues \cup {DictVector(<<v>>) : v \in DictValues}
    \cup {DictVector(<<Document("BAAI/bge-base-en"), Document("Qdrant/bm25")>>)}

\* the points of a call, told apart by their position
PointsOf(vs) == [k \in DOMAIN vs |-> [id |-> k, payload |-> k, vector |-> vs[k]]]
PointLists == {PointsOf(vs) : vs \in SeqUpTo(Vectors, MaxPoints)}

\* _embed_raw_data on a client c: a Document is embedded, anything else is
\* refused
_embed_raw_data(c, data, built, embedded) ==
    IF data.kind = "Document" THEN EmbedDocumentOn(c, data.model, built, embedded)
    ELSE [client |-> c, result |-> "ValueError", value |-> "none"]

RECURSIVE EmbedDict(_, _, _, _, _)
\* the loop over the keys of a dict vector: a Document value is replaced by
\* its embedding, any other value is kept
EmbedDict(c, items, built, embedded, embedding) ==
    IF items = <<>> THEN [client |-> c, result |-> "ok", embedding |-> embedding]
    ELSE LET current_vector == Head(items) IN
         IF current_vector.kind = "Document"
         THEN LET r == _embed_raw_data(c, current_vector, built, embedded) IN
              IF r.result # "ok"
              THEN [client |-> r.client, result |-> r.result, embedding |-> embedding]
              ELSE EmbedDict(r.client, Tail(items), built, embedded,
                             Append(embedding, Embedding(current_vector.model, r.value)))
         ELSE EmbedDict(c, Tail(items), built, embedded,
                        Append(embedding, current_vector))

RECURSIVE _embed_raw_points(_, _, _, _, _)
\* the loop of _embed_raw_points over a list of points: a Document vector is
\* refused when its model is a sparse one and embedded otherwise, a dict
\* vector is embedded value by value; a point is appended to updated_points
\* in these two branches
_embed_raw_points(c, points, built, embedded, updated_points) ==
    IF points = <<>>
    THEN [client |-> c, result |-> "ok", updated_points |-> updated_points]
    ELSE LET point == Head(points)
             vector == point.vector
         IN
         IF vector.kind = "Document"
         THEN IF vector.model \in SUPPORTED_SPARSE_EMBEDDING_MODELS
              THEN [client |-> c, result |-> "TypeError", updated_points |-> updated_points]
              ELSE LET r == _embed_raw_data(c, vector, built, embedded) IN
                   IF r.result # "ok"
                   THEN [client |-> r.client, result |-> r.result,
                         updated_points |-> updated_points]
                   ELSE _embed_raw_points(r.client, Tail(points), built, embedded,
                            Append(updated_points,
                                   [id |-> point.id, payload |-> point.payload,
                                    vector |-> Embedding(vector.model, r.value)]))
         ELSE IF vector.kind = "dict"
         THEN LET r == EmbedDict(c, vector.items, built, embedded, <<>>) IN
              IF r.result # "ok"
              THEN [client |-> r.client, result |-> r.result,
                    updated_points |-> updated_points]
              ELSE _embed_raw_points(r.client, Tail(points), built, embedded,
                       Append(updated_points,
                              [id |-> point.id, payload |-> point.payload,
                               vector |-> DictVector(r.embedding)]))
         ELSE _embed_raw_points(c, Tail(points), built, embedded, updated_points)

\* _embed_raw_points called on a new client with a list of points
EmbedRawPoints ==
    /\ last.op = "none"
    /\ \E points \in PointLists, built \in BOOLEAN, embedded \in BOOLEAN :
         LET r == _embed_raw_points(Held, points, built, embedded, <<>>) IN
         /\ Becomes(r.client)
         /\ last' = [op |-> "_embed_raw_points", arg |-> points, result |-> r.result,
                     value |-> IF r.result = "ok" THEN r.updated_points ELSE <<>>,
                     old |-> Held]
    /\ UNCHANGED genVars
    /\ UNCHANGED closeVars

NextPoints == EmbedRawPoints

SpecPoints == InitAdd /\ [][NextPoints]_vars

\* the vector an input vector is to become: a Document its embedding, a dict
\* the dict of what its values become, anything else itself
RECURSIVE Replaced(_, _)
Replaced(was, is) ==
    CASE was.kind = "Document" ->
             is.kind \in {"dense vector", "SparseVector"} /\ is.model = was.model
      [] was.kind = "dict" ->
             /\ is.kind = "dict"
             /\ Len(is.items) = Len(was.items)
             /\ \A k \in DOMAIN was.items : Replaced(was.items[k], is.items[k])
      [] OTHER -> is = was

\* C22: a call of _embed_raw_points on a list of points that returns gives
\* one point per input point, in order, with the same id and payload, the
\* vector kept unless it is a Document (by itself or as a value of a dict),
\* which is replaced by its embedding.
C22_OnePointEach ==
    (last.op = "_embed_raw_points" /\ last.result = "ok") =>
        /\ Len(last.value) = Len(last.arg)
        /\ \A k \in DOMAIN last.value :
               k \in DOMAIN last.arg =>
                   /\ last.value[k].id = last.arg[k].id
                   /\ last.value[k].payload = last.arg[k].payload
                   /\ Replaced(last.arg[k].vector, last.value[k].vector)

====
